---- MODULE Spec2Model ----
(***************************************************************************)
(* State machine of the conjugation quiz (src/src/main.rs): the App        *)
(* struct, the run loop (draw, then one input event), the three key        *)
(* handlers (verb selection, learning, game over), check_answer and        *)
(* next_question.                                                          *)
(*                                                                         *)
(* Strings typed by the learner and stored answers are sequences of        *)
(* one-character strings, so that to_lowercase and the equality test of    *)
(* check_answer are computed character by character.                       *)
(* Option<T> is a sequence of length 0 (None) or 1 (Some(x)).              *)
(* The widget library's rendering is outside the modelled source: it     *)
(* reads the state, and the table widget, which is handed table_state      *)
(* mutably, either leaves the selection or fits it to the rows it draws.   *)
(***************************************************************************)
EXTENDS Integers, Sequences, FiniteSets, TLC

VARIABLES
    cur_question,            \* u8: the question we are on
    total_questions,         \* u8: args.number
    total_correct,           \* u8
    total_incorrect,         \* u8
    table_state,             \* TableState.selected: Option<usize>
    verbs,                   \* Vec<String>: file stems of ./verbs
    verb,                    \* Option<Verb>: the chosen verb
    cur_conjugation,         \* usize: index into conjugations
    conjugations,            \* Vec<Conjugation>
    cur_response,            \* String typed so far
    cur_response_incorrect,  \* Option<bool>
    exit,                    \* Option<bool>: Some(false) completed, Some(true) quit
    pc,                      \* position of the run loop: "draw", "event", "done", "panic"
    key,                     \* the event the last handle_events call read
    result,                  \* Option<u8>: the value run() returned
    op,                      \* the arm of the key handlers the last event took
    advances,                \* next_question calls since construction or the last reset at game over
    judged_correct,          \* answers judged correct since construction or the last reset at game over
    confirms,                \* verbs confirmed at the verbs table so far (counted up to MaxConfirms)
    panic                    \* "" or the message of the panic that ended the process

appvars == <<cur_question, total_questions, total_correct, total_incorrect,
             table_state, verbs, verb, cur_conjugation, conjugations,
             cur_response, cur_response_incorrect, exit>>
vars == <<cur_question, total_questions, total_correct, total_incorrect,
          table_state, verbs, verb, cur_conjugation, conjugations,
          cur_response, cur_response_incorrect, exit, pc, key, result, op,
          advances, judged_correct, confirms, panic>>

-----------------------------------------------------------------------------
(* Bounds of the model *)

\* the accepted values of args.number range over 1..MaxQuestions (the
\* program accepts 1..99)
MaxQuestions == 3
\* the learner types at most MaxLen characters into cur_response
MaxLen == 2
\* on an empty list, in a build where verbs.len() - 1 wraps, the highlight
\* is moved at most MaxWrapSteps away from 0 and from usize::MAX
MaxWrapSteps == 1
\* confirmations of a verb at the verbs table are counted up to MaxConfirms
MaxConfirms == 2

-----------------------------------------------------------------------------
(* Option, strings *)

None == <<>>
Some(x) == <<x>>
Unwrap(o) == o[1]

\* usize::MAX, the value cur_conjugation is constructed with and the value
\* 0usize - 1 wraps to; held in the checker's integer range, only compared.
UsizeMax == 2147483647

\* char::to_lowercase on the characters the model types
LowerChar(c) == IF c = "J" THEN "j" ELSE IF c = "K" THEN "k" ELSE c

\* String::to_lowercase
ToLowercase(s) == [i \in 1..Len(s) |-> LowerChar(s[i])]

\* the printable characters the keyboard of the model sends
Chars == {"j", "J", "k", " "}

-----------------------------------------------------------------------------
(* Verb, the dataset store, parse_conjugations *)

\* Verb::from_str: the lowercased name matched against the closed set;
\* "" stands for the panic "Verb not matched".
VerbFromStr(v) ==
    LET l == IF v = "Haben" THEN "haben" ELSE v IN
    CASE l = "aufwachen" -> "Aufwachen"
      [] l = "duschen"   -> "Duschen"
      [] l = "essen"     -> "Essen"
      [] l = "gehen"     -> "Gehen"
      [] l = "haben"     -> "Haben"
      [] l = "helfen"    -> "Helfen"
      [] l = "machen"    -> "Machen"
      [] l = "schlafen"  -> "Schlafen"
      [] l = "skifahren" -> "Skifahren"
      [] l = "treffen"   -> "Treffen"
      [] l = "trinken"   -> "Trinken"
      [] OTHER           -> ""

\* struct Conjugation
Conjugation(v, t, p, e, g) ==
    [verb |-> v, tense |-> t, person |-> p, english |-> e, german |-> g]

\* The rows of ./verbs/<Verb>.csv as the run finds them: Gehen has two rows
\* (one stored in upper case), Haben one, Essen only its header, and the
\* file of every other verb cannot be opened.
VerbFile(v) ==
    CASE v = "Gehen" -> [ok |-> TRUE, rows |->
                           << <<"Present", "I", "i go", <<"j">> >>,
                              <<"Past", "We", "we went", <<"J">> >> >>]
      [] v = "Haben" -> [ok |-> TRUE, rows |->
                           << <<"Present", "I", "i have", <<"j", "k">> >> >>]
      [] v = "Essen" -> [ok |-> TRUE, rows |-> <<>>]
      [] OTHER       -> [ok |-> FALSE, rows |-> <<>>]

\* parse_conjugations: Err when the file cannot be read, else one
\* Conjugation per row, in order
ParseConjugations(v) ==
    LET f == VerbFile(v) IN
    IF ~f.ok THEN [ok |-> FALSE, val |-> <<>>]
    ELSE [ok |-> TRUE,
          val |-> [i \in 1..Len(f.rows) |->
                     Conjugation(v, f.rows[i][1], f.rows[i][2],
                                 f.rows[i][3], f.rows[i][4])]]

\* the listings of ./verbs a run may start with
VerbLists == { <<>>, <<"haben">>, <<"gehen", "Haben">>,
               <<"essen", "machen", "notes">> }

-----------------------------------------------------------------------------
(* Input events *)

KeyEv(code, ch) == [kind |-> "Press", code |-> code, ch |-> ch]
Enter == KeyEv("Enter", "")
Esc == KeyEv("Esc", "")
Backspace == KeyEv("Backspace", "")
Up == KeyEv("Up", "")
Down == KeyEv("Down", "")
Tab == KeyEv("Tab", "")
Char(c) == KeyEv("Char", c)
\* an event that is not a key press (key release, resize)
NonPress == [kind |-> "Other", code |-> "", ch |-> ""]
NoEvent == [kind |-> "None", code |-> "", ch |-> ""]

Events == {Enter, Esc, Backspace, Up, Down, Tab, NonPress}
            \cup {Char(c) : c \in Chars}

-----------------------------------------------------------------------------
(* main: the state after construction *)

\* the values of args.number (u8) a run is started with
ArgNumbers == {0, 100, 255} \cup 1..MaxQuestions

\* variant of NumberInRange: 0 questions accepted
NumberInRangeFromZero(n) == n \in 0..99

\* the test of main on args.number: (1..100).contains(&n)
NumberInRange(n) == n \in 1..99

\* the message of the panic of main on a number out of range
StartupPanic == "n is either too small or too large"

Init ==
    /\ cur_question = 0
    /\ total_questions \in ArgNumbers
    /\ total_correct = 0
    /\ total_incorrect = 0
    /\ table_state = Some(0)
    /\ verbs \in VerbLists
    /\ verb \in {None, Some("Gehen")}
    /\ cur_conjugation = UsizeMax
    /\ conjugations = <<>>
    /\ cur_response = <<>>
    /\ cur_response_incorrect = None
    /\ exit = None
    /\ pc = IF NumberInRange(total_questions) THEN "draw" ELSE "panic"
    /\ key = NoEvent
    /\ result = None
    /\ op = "none"
    /\ advances = 0
    /\ judged_correct = 0
    /\ confirms = 0
    /\ panic = IF NumberInRange(total_questions) THEN "" ELSE StartupPanic

-----------------------------------------------------------------------------
(* The operations of impl App *)

\* a panic unwinds out of run(): the fields keep what was assigned so far
Panics(msg) == panic' = msg

\* variant of GenRange: the range taken inclusive, gen_range(0..=n)
GenRangeInclusive(n) == 0..n

\* rand::thread_rng().gen_range(0..n): any index below n; an empty range panics
GenRange(n) == 0..(n - 1)

\* variant of IsCorrect: the typed text compared as typed
IsCorrectAsTyped(german, response) == german = response

\* the comparison of check_answer: the stored answer against the typed
\* text in lower case
IsCorrect(german, response) == german = ToLowercase(response)

\* variant of CheckAnswer: a wrong answer is flagged and not counted
CheckAnswerWrongNotCounted ==
    IF cur_response = <<>>
    THEN UNCHANGED <<appvars, panic>>
    ELSE IF cur_conjugation >= Len(conjugations)
    THEN /\ Panics("called Option::unwrap() on a None value")
         /\ UNCHANGED appvars
    ELSE LET correct == IsCorrect(conjugations[cur_conjugation + 1].german,
                                  cur_response) IN
         /\ IF ~correct
            THEN /\ cur_response_incorrect' = Some(TRUE)
                 /\ UNCHANGED <<total_correct, total_incorrect>>
            ELSE /\ total_correct' = total_correct + 1
                 /\ cur_response_incorrect' = Some(FALSE)
                 /\ UNCHANGED total_incorrect
         /\ UNCHANGED <<cur_question, total_questions, table_state, verbs, verb,
                        cur_conjugation, conjugations, cur_response, exit, panic>>

\* variant of CheckAnswer: no early return on an empty cur_response
CheckAnswerJudgesEmpty ==
    IF cur_conjugation >= Len(conjugations)
    THEN /\ Panics("called Option::unwrap() on a None value")
         /\ UNCHANGED appvars
    ELSE LET correct == IsCorrect(conjugations[cur_conjugation + 1].german,
                                  cur_response) IN
         /\ IF ~correct
            THEN /\ total_incorrect' = total_incorrect + 1
                 /\ cur_response_incorrect' = Some(TRUE)
                 /\ UNCHANGED total_correct
            ELSE /\ total_correct' = total_correct + 1
                 /\ cur_response_incorrect' = Some(FALSE)
                 /\ UNCHANGED total_incorrect
         /\ UNCHANGED <<cur_question, total_questions, table_state, verbs, verb,
                        cur_conjugation, conjugations, cur_response, exit, panic>>

\* variant of CheckAnswer: a right answer is counted in both totals
CheckAnswerCountsTwice ==
    IF cur_response = <<>>
    THEN UNCHANGED <<appvars, panic>>
    ELSE IF cur_conjugation >= Len(conjugations)
    THEN /\ Panics("called Option::unwrap() on a None value")
         /\ UNCHANGED appvars
    ELSE LET correct == IsCorrect(conjugations[cur_conjugation + 1].german,
                                  cur_response) IN
         /\ IF ~correct
            THEN /\ total_incorrect' = total_incorrect + 1
                 /\ cur_response_incorrect' = Some(TRUE)
                 /\ UNCHANGED total_correct
            ELSE /\ total_correct' = total_correct + 1
                 /\ total_incorrect' = total_incorrect + 1
                 /\ cur_response_incorrect' = Some(FALSE)
         /\ UNCHANGED <<cur_question, total_questions, table_state, verbs, verb,
                        cur_conjugation, conjugations, cur_response, exit, panic>>

\* check_answer
CheckAnswer ==
    IF cur_response = <<>>
    THEN UNCHANGED <<appvars, panic>>
    ELSE IF cur_conjugation >= Len(conjugations)
    THEN /\ Panics("called Option::unwrap() on a None value")
         /\ UNCHANGED appvars
    ELSE LET correct == IsCorrect(conjugations[cur_conjugation + 1].german,
                                  cur_response) IN
         /\ IF ~correct
            THEN /\ total_incorrect' = total_incorrect + 1
                 /\ cur_response_incorrect' = Some(TRUE)
                 /\ UNCHANGED total_correct
            ELSE /\ total_correct' = total_correct + 1
                 /\ cur_response_incorrect' = Some(FALSE)
                 /\ UNCHANGED total_incorrect
         /\ UNCHANGED <<cur_question, total_questions, table_state, verbs, verb,
                        cur_conjugation, conjugations, cur_response, exit, panic>>

\* variant of NextQuestion: the end test written > instead of >=
NextQuestionStrictEnd ==
    /\ cur_response' = <<>>
    /\ cur_response_incorrect' = None
    /\ cur_question' = cur_question + 1
    /\ exit' = IF cur_question + 1 > total_questions THEN Some(FALSE) ELSE exit
    /\ IF Len(conjugations) = 0
       THEN /\ Panics("cannot sample empty range")
            /\ UNCHANGED cur_conjugation
       ELSE /\ cur_conjugation' \in GenRange(Len(conjugations))
            /\ UNCHANGED panic
    /\ UNCHANGED <<total_questions, total_correct, total_incorrect, table_state,
                   verbs, verb, conjugations>>

\* variant of NextQuestion: cur_question starts over once the end is reached
NextQuestionResetsAtEnd ==
    /\ cur_response' = <<>>
    /\ cur_response_incorrect' = None
    /\ cur_question' = IF cur_question + 1 >= total_questions THEN 0
                       ELSE cur_question + 1
    /\ exit' = IF cur_question + 1 >= total_questions THEN Some(FALSE) ELSE exit
    /\ IF Len(conjugations) = 0
       THEN /\ Panics("cannot sample empty range")
            /\ UNCHANGED cur_conjugation
       ELSE /\ cur_conjugation' \in GenRange(Len(conjugations))
            /\ UNCHANGED panic
    /\ UNCHANGED <<total_questions, total_correct, total_incorrect, table_state,
                   verbs, verb, conjugations>>

\* variant of NextQuestion: cur_response is not cleared
NextQuestionKeepsResponse ==
    /\ UNCHANGED cur_response
    /\ cur_response_incorrect' = None
    /\ cur_question' = cur_question + 1
    /\ exit' = IF cur_question + 1 >= total_questions THEN Some(FALSE) ELSE exit
    /\ IF Len(conjugations) = 0
       THEN /\ Panics("cannot sample empty range")
            /\ UNCHANGED cur_conjugation
       ELSE /\ cur_conjugation' \in GenRange(Len(conjugations))
            /\ UNCHANGED panic
    /\ UNCHANGED <<total_questions, total_correct, total_incorrect, table_state,
                   verbs, verb, conjugations>>

\* variant of NextQuestion: cur_response_incorrect is not cleared
NextQuestionKeepsJudgment ==
    /\ cur_response' = <<>>
    /\ UNCHANGED cur_response_incorrect
    /\ cur_question' = cur_question + 1
    /\ exit' = IF cur_question + 1 >= total_questions THEN Some(FALSE) ELSE exit
    /\ IF Len(conjugations) = 0
       THEN /\ Panics("cannot sample empty range")
            /\ UNCHANGED cur_conjugation
       ELSE /\ cur_conjugation' \in GenRange(Len(conjugations))
            /\ UNCHANGED panic
    /\ UNCHANGED <<total_questions, total_correct, total_incorrect, table_state,
                   verbs, verb, conjugations>>

\* next_question
NextQuestion ==
    /\ cur_response' = <<>>
    /\ cur_response_incorrect' = None
    /\ cur_question' = cur_question + 1
    /\ exit' = IF cur_question + 1 >= total_questions THEN Some(FALSE) ELSE exit
    /\ IF Len(conjugations) = 0
       THEN /\ Panics("cannot sample empty range")
            /\ UNCHANGED cur_conjugation
       ELSE /\ cur_conjugation' \in GenRange(Len(conjugations))
            /\ UNCHANGED panic
    /\ UNCHANGED <<total_questions, total_correct, total_incorrect, table_state,
                   verbs, verb, conjugations>>

\* variant of NextSelected: the wrap test written against len
NextSelectedLateWrap(i, n) == IF i >= n THEN 0 ELSE i + 1

\* next_table_item on Some(i) with n = verbs.len() > 0
NextSelected(i, n) == IF i >= n - 1 THEN 0 ELSE i + 1

\* previous_table_item on Some(i) with n = verbs.len() > 0
PreviousSelected(i, n) == IF i = 0 THEN n - 1 ELSE i - 1

\* next_table_item; verbs.len() - 1 underflows on an empty list: a build
\* with overflow checks panics, one without wraps to usize::MAX
NextTableItem ==
    LET Select(i) == /\ table_state' = Some(i)
                     /\ UNCHANGED panic
    IN
    /\ IF table_state = None
       THEN Select(0)
       ELSE LET i == Unwrap(table_state) IN
            IF Len(verbs) = 0
            THEN \/ /\ Panics("attempt to subtract with overflow")
                    /\ UNCHANGED table_state
                 \/ /\ (i >= UsizeMax \/ i < MaxWrapSteps)
                    /\ Select(IF i >= UsizeMax THEN 0 ELSE i + 1)
            ELSE Select(NextSelected(i, Len(verbs)))
    /\ UNCHANGED <<cur_question, total_questions, total_correct, total_incorrect,
                   verbs, verb, cur_conjugation, conjugations, cur_response,
                   cur_response_incorrect, exit>>

\* previous_table_item
PreviousTableItem ==
    LET Select(i) == /\ table_state' = Some(i)
                     /\ UNCHANGED panic
    IN
    /\ IF table_state = None
       THEN Select(0)
       ELSE LET i == Unwrap(table_state) IN
            IF Len(verbs) = 0
            THEN IF i = 0
                 THEN \/ /\ Panics("attempt to subtract with overflow")
                         /\ UNCHANGED table_state
                      \/ Select(UsizeMax)
                 ELSE /\ (i - 1 >= UsizeMax - MaxWrapSteps \/ i - 1 < MaxWrapSteps)
                      /\ Select(i - 1)
            ELSE Select(PreviousSelected(i, Len(verbs)))
    /\ UNCHANGED <<cur_question, total_questions, total_correct, total_incorrect,
                   verbs, verb, cur_conjugation, conjugations, cur_response,
                   cur_response_incorrect, exit>>

\* variant of SelectVerbEnter: a file that cannot be read counts as no
\* conjugations, and an empty dataset is accepted with index 0
SelectVerbEnterToleratesNoData ==
    LET Fail(msg) == /\ Panics(msg)
                     /\ UNCHANGED <<verb, conjugations, cur_conjugation>>
    IN
    /\ IF table_state = None
       THEN Fail("No verb selected, but is being selected")
       ELSE IF Unwrap(table_state) >= Len(verbs)
       THEN Fail("Selected verb could not be getted")
       ELSE LET v == VerbFromStr(verbs[Unwrap(table_state) + 1])
                r == ParseConjugations(v)
            IN
            IF v = ""
            THEN Fail("Verb not matched")
            ELSE /\ verb' = Some(v)
                 /\ conjugations' = r.val
                 /\ IF Len(r.val) = 0
                    THEN cur_conjugation' = 0
                    ELSE cur_conjugation' \in GenRange(Len(r.val))
                 /\ UNCHANGED panic
    /\ UNCHANGED <<cur_question, total_questions, total_correct, total_incorrect,
                   table_state, verbs, cur_response, cur_response_incorrect, exit>>

\* the Enter arm of handle_key_event_select_verb: set the verb, load its
\* conjugations, roll the first question
SelectVerbEnter ==
    LET Fail(msg) == /\ Panics(msg)
                     /\ UNCHANGED <<verb, conjugations, cur_conjugation>>
    IN
    /\ IF table_state = None
       THEN Fail("No verb selected, but is being selected")
       ELSE IF Unwrap(table_state) >= Len(verbs)
       THEN Fail("Selected verb could not be getted")
       ELSE LET v == VerbFromStr(verbs[Unwrap(table_state) + 1])
                r == ParseConjugations(v)
            IN
            IF v = ""
            THEN Fail("Verb not matched")
            ELSE /\ verb' = Some(v)
                 /\ IF ~r.ok
                    THEN /\ Panics("Could not parse the conjugations")
                         /\ UNCHANGED <<conjugations, cur_conjugation>>
                    ELSE /\ conjugations' = r.val
                         /\ IF Len(r.val) = 0
                            THEN /\ Panics("cannot sample empty range")
                                 /\ UNCHANGED cur_conjugation
                            ELSE /\ cur_conjugation' \in GenRange(Len(r.val))
                                 /\ UNCHANGED panic
    /\ UNCHANGED <<cur_question, total_questions, total_correct, total_incorrect,
                   table_state, verbs, cur_response, cur_response_incorrect, exit>>

\* handle_key_event_select_verb
HandleKeyEventSelectVerb(k) ==
    CASE k.code = "Esc" ->
            /\ op' = "select_verb:esc"
            /\ exit' = Some(TRUE)
            /\ UNCHANGED <<cur_question, total_questions, total_correct,
                           total_incorrect, table_state, verbs, verb,
                           cur_conjugation, conjugations, cur_response,
                           cur_response_incorrect, panic>>
      [] k.code = "Enter" ->
            /\ op' = "select_verb:enter"
            /\ SelectVerbEnter
      [] k.code = "Up" \/ (k.code = "Char" /\ k.ch = "k") ->
            /\ op' = "select_verb:previous"
            /\ PreviousTableItem
      [] k.code = "Down" \/ (k.code = "Char" /\ k.ch = "j") ->
            /\ op' = "select_verb:next"
            /\ NextTableItem
      [] OTHER ->
            /\ op' = "select_verb:other"
            /\ UNCHANGED <<appvars, panic>>

\* variant of HandleKeyEventLearning: Enter checks the answer whatever
\* cur_response_incorrect holds
HandleKeyEventLearningAlwaysChecks(k) ==
    CASE k.code = "Enter" ->
            /\ op' = "learning:check_answer"
            /\ CheckAnswer
      [] k.code = "Esc" ->
            /\ op' = "learning:esc"
            /\ exit' = Some(TRUE)
            /\ UNCHANGED <<cur_question, total_questions, total_correct,
                           total_incorrect, table_state, verbs, verb,
                           cur_conjugation, conjugations, cur_response,
                           cur_response_incorrect, panic>>
      [] k.code = "Backspace" ->
            /\ op' = "learning:backspace"
            /\ cur_response' = IF cur_response = <<>> THEN <<>>
                               ELSE SubSeq(cur_response, 1, Len(cur_response) - 1)
            /\ UNCHANGED <<cur_question, total_questions, total_correct,
                           total_incorrect, table_state, verbs, verb,
                           cur_conjugation, conjugations,
                           cur_response_incorrect, exit, panic>>
      [] k.code = "Char" ->
            /\ Len(cur_response) < MaxLen
            /\ op' = "learning:char"
            /\ cur_response' = Append(cur_response, k.ch)
            /\ UNCHANGED <<cur_question, total_questions, total_correct,
                           total_incorrect, table_state, verbs, verb,
                           cur_conjugation, conjugations,
                           cur_response_incorrect, exit, panic>>
      [] OTHER ->
            /\ op' = "learning:other"
            /\ UNCHANGED <<appvars, panic>>

\* handle_key_event_learning; a Char is taken only while cur_response is
\* shorter than MaxLen (the bound of the model on what the learner types)
HandleKeyEventLearning(k) ==
    CASE k.code = "Enter" ->
            IF cur_response_incorrect = None
            THEN /\ op' = "learning:check_answer"
                 /\ CheckAnswer
            ELSE /\ op' = "learning:next_question"
                 /\ NextQuestion
      [] k.code = "Esc" ->
            /\ op' = "learning:esc"
            /\ exit' = Some(TRUE)
            /\ UNCHANGED <<cur_question, total_questions, total_correct,
                           total_incorrect, table_state, verbs, verb,
                           cur_conjugation, conjugations, cur_response,
                           cur_response_incorrect, panic>>
      [] k.code = "Backspace" ->
            /\ op' = "learning:backspace"
            /\ cur_response' = IF cur_response = <<>> THEN <<>>
                               ELSE SubSeq(cur_response, 1, Len(cur_response) - 1)
            /\ UNCHANGED <<cur_question, total_questions, total_correct,
                           total_incorrect, table_state, verbs, verb,
                           cur_conjugation, conjugations,
                           cur_response_incorrect, exit, panic>>
      [] k.code = "Char" ->
            /\ Len(cur_response) < MaxLen
            /\ op' = "learning:char"
            /\ cur_response' = Append(cur_response, k.ch)
            /\ UNCHANGED <<cur_question, total_questions, total_correct,
                           total_incorrect, table_state, verbs, verb,
                           cur_conjugation, conjugations,
                           cur_response_incorrect, exit, panic>>
      [] OTHER ->
            /\ op' = "learning:other"
            /\ UNCHANGED <<appvars, panic>>

\* variant of GameOverRestart: total_incorrect is not reset
GameOverRestartKeepsIncorrect ==
    /\ cur_question' = 0
    /\ total_correct' = 0
    /\ exit' = None
    /\ UNCHANGED <<total_questions, total_incorrect, table_state, verbs, verb,
                   cur_conjugation, conjugations, cur_response,
                   cur_response_incorrect, panic>>

\* variant of GameOverRestart: the restart rolls the first question itself
GameOverRestartRolls ==
    /\ cur_question' = 0
    /\ total_correct' = 0
    /\ total_incorrect' = 0
    /\ exit' = None
    /\ cur_conjugation' \in GenRange(Len(conjugations))
    /\ UNCHANGED <<total_questions, table_state, verbs, verb,
                   conjugations, cur_response, cur_response_incorrect, panic>>

\* the Enter arm of handle_key_event_game_over: attempt again
GameOverRestart ==
    /\ cur_question' = 0
    /\ total_correct' = 0
    /\ total_incorrect' = 0
    /\ exit' = None
    /\ UNCHANGED <<total_questions, table_state, verbs, verb,
                   cur_conjugation, conjugations, cur_response,
                   cur_response_incorrect, panic>>

\* variant of GameOverNewVerb: any other key is ignored
GameOverOtherKeyIgnored == UNCHANGED <<appvars, panic>>

\* variant of GameOverNewVerb: exit keeps Some(false)
GameOverNewVerbKeepsExit ==
    /\ cur_question' = 0
    /\ total_correct' = 0
    /\ total_incorrect' = 0
    /\ verb' = None
    /\ UNCHANGED <<total_questions, table_state, verbs,
                   cur_conjugation, conjugations, cur_response,
                   cur_response_incorrect, exit, panic>>

\* the catch-all arm of handle_key_event_game_over: select a new verb
GameOverNewVerb ==
    /\ cur_question' = 0
    /\ total_correct' = 0
    /\ total_incorrect' = 0
    /\ verb' = None
    /\ exit' = None
    /\ UNCHANGED <<total_questions, table_state, verbs,
                   cur_conjugation, conjugations, cur_response,
                   cur_response_incorrect, panic>>

\* handle_key_event_game_over
HandleKeyEventGameOver(k) ==
    CASE k.code = "Enter" ->
            /\ op' = "game_over:enter"
            /\ GameOverRestart
      [] k.code = "Esc" ->
            /\ op' = "game_over:esc"
            /\ exit' = Some(TRUE)
            /\ UNCHANGED <<cur_question, total_questions, total_correct,
                           total_incorrect, table_state, verbs, verb,
                           cur_conjugation, conjugations, cur_response,
                           cur_response_incorrect, panic>>
      [] OTHER ->
            /\ op' = "game_over:other"
            /\ GameOverNewVerb

\* handle_key_event
HandleKeyEvent(k) ==
    IF verb = None THEN HandleKeyEventSelectVerb(k)
    ELSE IF exit # None THEN HandleKeyEventGameOver(k)
    ELSE HandleKeyEventLearning(k)

\* variant of LoopContinues: the loop goes on whatever exit holds
LoopContinuesAlways(e) == e = None \/ Len(e) = 1

\* the condition of the while loop of run()
LoopContinues(e) == e = None \/ e = Some(FALSE)

\* the selection as the table widget may leave it after drawing n rows:
\* none when there are no rows, else at most the last row
FittedSelection(sel, n) ==
    IF n = 0 THEN None
    ELSE IF sel # None /\ Unwrap(sel) >= n THEN Some(n - 1)
    ELSE sel

\* render_verbs_table: render_stateful_widget is given &mut table_state
RenderVerbsTable ==
    table_state' \in {table_state, FittedSelection(table_state, Len(verbs))}

\* draw: the verbs table while no verb is chosen, else the widget: the
\* score once exit is set, else a question or feedback screen, which
\* unwraps conjugations.get(cur_conjugation)
Draw ==
    /\ pc = "draw"
    /\ IF verb = None
       THEN /\ RenderVerbsTable
            /\ pc' = "event"
            /\ UNCHANGED panic
       ELSE /\ IF exit = None /\ cur_conjugation >= Len(conjugations)
               THEN /\ Panics("called Option::unwrap() on a None value")
                    /\ pc' = "panic"
               ELSE /\ pc' = "event"
                    /\ UNCHANGED panic
            /\ UNCHANGED table_state
    /\ UNCHANGED <<cur_question, total_questions, total_correct, total_incorrect,
                   verbs, verb, cur_conjugation, conjugations, cur_response,
                   cur_response_incorrect, exit>>
    /\ UNCHANGED <<key, result, op, advances, judged_correct, confirms>>

\* variant of RunReturns: run returns the number of questions asked
RunReturnsQuestion == Some(cur_question')

\* the value run() returns once its loop has ended: Ok(self.total_correct)
RunReturns == Some(total_correct')

\* handle_events on the event e, then the loop test of run(): run returns
\* total_correct when the test fails
HandleEvents(e) ==
    /\ pc = "event"
    /\ key' = e
    /\ IF e.kind = "Press"
       THEN HandleKeyEvent(e)
       ELSE /\ op' = "not_a_key_press"
            /\ UNCHANGED <<appvars, panic>>
    /\ advances' = CASE op' = "learning:next_question" -> advances + 1
                      [] op' \in {"game_over:enter", "game_over:other"} -> 0
                      [] OTHER -> advances
    /\ pc' = IF panic' # "" THEN "panic"
             ELSE IF LoopContinues(exit') THEN "draw" ELSE "done"
    /\ result' = IF panic' = "" /\ ~LoopContinues(exit')
                 THEN RunReturns ELSE result
    /\ judged_correct' =
          CASE op' = "learning:check_answer" /\ cur_response_incorrect = None
                  /\ cur_response_incorrect' = Some(FALSE) -> judged_correct + 1
            [] op' \in {"game_over:enter", "game_over:other"} -> 0
            [] OTHER -> judged_correct
    /\ confirms' = IF op' = "select_verb:enter" /\ panic' = ""
                      /\ confirms < MaxConfirms
                   THEN confirms + 1 ELSE confirms

Next ==
    \/ Draw
    \/ \E e \in Events : HandleEvents(e)

Spec == Init /\ [][Next]_vars

-----------------------------------------------------------------------------
(* The screens, and the steps of the run loop *)

\* the process is alive: neither returned from run() nor panicked
Running == pc \in {"draw", "event"}
\* the verbs table is shown
Selecting == Running /\ verb = None
\* a question or its feedback is shown
Learning == Running /\ verb # None /\ exit = None
Unanswered == Learning /\ cur_response_incorrect = None
Judged == Learning /\ cur_response_incorrect # None
\* the score is shown
Completed == Running /\ verb # None /\ exit = Some(FALSE)

\* this step is handle_events applied to the event key'
EventStep == pc = "event" /\ pc' # "event"

\* the answer stored for the current question
Stored == conjugations[cur_conjugation + 1].german

-----------------------------------------------------------------------------
(* C1 *)

\* C1, as stated: while exit is None, total_correct + total_incorrect equals
\* cur_question, the state between judging and advancing included.
C1_SumEqualsQuestionAlways ==
    exit = None => total_correct + total_incorrect = cur_question

\* C1, amended: while exit is None, total_correct + total_incorrect equals
\* cur_question when no answer is judged, and cur_question + 1 between
\* judging an answer and advancing.
C1_SumEqualsQuestionUnlessJudged ==
    exit = None =>
        /\ cur_response_incorrect = None
              => total_correct + total_incorrect = cur_question
        /\ cur_response_incorrect # None
              => total_correct + total_incorrect = cur_question + 1

\* the second question has been judged, one answer of each kind so far
C1_Witness ==
    /\ Judged
    /\ op = "learning:check_answer"
    /\ cur_question = 1
    /\ total_correct = 1
    /\ total_incorrect = 1

-----------------------------------------------------------------------------
(* C2 *)

\* C2: whenever a question or feedback screen is (about to be) displayed,
\* cur_conjugation is a valid index into a non-empty conjugations, also when
\* the run starts with a pre-chosen verb.
C2_ValidIndexWhileLearning ==
    Learning => /\ conjugations # <<>>
                /\ cur_conjugation < Len(conjugations)

-----------------------------------------------------------------------------
(* C3 *)

\* C3: counting advances from the start or the last reset, exit is None
\* after fewer than total_questions advances and is set (Completed) exactly
\* at the total_questions-th advance.
C3_CompletedExactlyAtTotal ==
    panic = "" =>
        /\ advances <= total_questions
        /\ exit = None => advances < total_questions
        /\ exit = Some(FALSE) => advances = total_questions
        /\ advances = total_questions => exit # None
        /\ op = "learning:next_question" /\ advances = total_questions
              => exit = Some(FALSE)

\* the scenario: one question, one record, the right answer, Submit, Submit
C3_Witness ==
    /\ total_questions = 1
    /\ Len(conjugations) = 1
    /\ op = "learning:next_question"
    /\ advances = 1
    /\ total_correct = 1
    /\ exit = Some(FALSE)

-----------------------------------------------------------------------------
(* C4 *)

\* the step is the advance that makes cur_question equal total_questions
CompletingAdvance ==
    /\ EventStep
    /\ Judged
    /\ key' = Enter
    /\ cur_question + 1 = total_questions

-----------------------------------------------------------------------------
(* C5 *)

\* C5: Enter on an unanswered question with an empty cur_response changes
\* nothing of the session.
C5_EmptySubmitIsNoOp ==
    [][(EventStep /\ key' = Enter /\ Unanswered /\ cur_response = <<>>)
          => /\ UNCHANGED appvars
             /\ UNCHANGED <<advances, judged_correct, result, panic>>
             /\ pc' = "draw"]_vars

\* check_answer was called with an empty cur_response, after an advance
C5_Witness ==
    /\ Unanswered
    /\ op = "learning:check_answer"
    /\ key = Enter
    /\ cur_response = <<>>
    /\ cur_question = 1

-----------------------------------------------------------------------------
(* C6 *)

\* a typed character equals a stored one once the typed one alone is put
\* in lower case: a stored upper-case letter is matched by nothing
TypedMatchesStored(typed, stored) ==
    \/ stored = "j" /\ typed \in {"j", "J"}
    \/ stored = "k" /\ typed \in {"k", "K"}
    \/ stored = " " /\ typed = " "

\* equality of the typed string, lowercased, and the stored one, untrimmed
AnswerMatches(typed, stored) ==
    /\ Len(typed) = Len(stored)
    /\ \A i \in 1..Len(typed) : TypedMatchesStored(typed[i], stored[i])

\* C6: a non-empty submission is judged Correct iff cur_response, with only
\* the typed text lowercased and nothing trimmed, equals the stored answer:
\* "J" against "j" is Correct, " j" and "j " against "j" are Incorrect.
C6_CorrectIffLowercasedInputEqualsStored ==
    [][(EventStep /\ key' = Enter /\ Unanswered /\ cur_response # <<>>)
          => /\ cur_response_incorrect' \in {Some(TRUE), Some(FALSE)}
             /\ cur_response_incorrect' = Some(FALSE)
                   <=> AnswerMatches(cur_response, Stored)
             /\ (cur_response = <<"J">> /\ Stored = <<"j">>)
                   => cur_response_incorrect' = Some(FALSE)
             /\ (cur_response \in {<<" ", "j">>, <<"j", " ">>} /\ Stored = <<"j">>)
                   => cur_response_incorrect' = Some(TRUE)]_vars

\* "J" was submitted against the stored "j" and judged Correct
C6_Witness ==
    /\ Judged
    /\ op = "learning:check_answer"
    /\ cur_response = <<"J">>
    /\ Stored = <<"j">>
    /\ cur_response_incorrect = Some(FALSE)

-----------------------------------------------------------------------------
(* C7 *)

\* C7: Enter at the score screen leaves cur_question, total_correct and
\* total_incorrect at 0 and exit at None, and keeps the verb and the loaded
\* conjugations.
C7_RestartResetsCounters ==
    [][(EventStep /\ key' = Enter /\ Completed)
          => /\ cur_question' = 0
             /\ total_correct' = 0
             /\ total_incorrect' = 0
             /\ exit' = None
             /\ verb' = verb
             /\ conjugations' = conjugations
             /\ pc' = "draw"]_vars

\* a session of two questions, completed, was restarted
C7_Witness ==
    /\ Unanswered
    /\ op = "game_over:enter"
    /\ total_questions = 2
    /\ cur_question = 0
    /\ total_correct = 0
    /\ total_incorrect = 0

-----------------------------------------------------------------------------
(* C8 *)

-----------------------------------------------------------------------------
(* C9 *)

\* C9, as stated: at the score screen every event other than Enter and Esc
\* leaves the session unchanged.
C9_OnlyRestartAndExit ==
    [][(EventStep /\ Completed /\ key' \notin {Enter, Esc})
          => UNCHANGED appvars]_vars

\* C9, amended: at the score screen Enter restarts, Esc exits, and every
\* other key press chooses a different verb: it resets cur_question,
\* total_correct and total_incorrect to 0, clears verb and exit and changes
\* nothing else; only an event that is no key press leaves the session
\* unchanged.
C9_OtherKeysChooseNewVerb ==
    [][(EventStep /\ Completed /\ key' \notin {Enter, Esc})
          => IF key'.kind = "Press"
             THEN /\ cur_question' = 0
                  /\ total_correct' = 0
                  /\ total_incorrect' = 0
                  /\ verb' = None
                  /\ exit' = None
                  /\ UNCHANGED <<total_questions, table_state, verbs,
                                 cur_conjugation, conjugations, cur_response,
                                 cur_response_incorrect>>
             ELSE UNCHANGED appvars]_vars

\* Backspace at the score screen led back to the verbs table
C9_Witness ==
    /\ Selecting
    /\ op = "game_over:other"
    /\ key = Backspace
    /\ conjugations # <<>>

-----------------------------------------------------------------------------
(* C10 *)

\* C10: Esc while exit is None (verbs table, unanswered, judged) sets exit
\* to Some(true) and keeps the counters and cur_question; run() then returns
\* and no event is applied after it.
C10_AbortQuitsAndQuitIsAbsorbing ==
    [][/\ (EventStep /\ key' = Esc /\ exit = None)
            => /\ exit' = Some(TRUE)
               /\ UNCHANGED <<cur_question, total_correct, total_incorrect>>
               /\ pc' = "done"
       /\ exit = Some(TRUE) => UNCHANGED vars]_vars

\* Esc on a feedback screen ended the run
C10_Witness ==
    /\ pc = "done"
    /\ exit = Some(TRUE)
    /\ op = "learning:esc"
    /\ cur_response_incorrect # None
    /\ total_correct + total_incorrect = 1

-----------------------------------------------------------------------------
(* C11 *)

\* C11: once run() has returned (Esc at the score screen or earlier), the
\* value it returned is total_correct as it then stands, which is the
\* number of answers judged correct since the start or the last reset.
C11_ReturnsCorrectCount ==
    /\ pc = "done" => /\ result = Some(total_correct)
                      /\ result = Some(judged_correct)
    /\ pc # "done" => result = None
    /\ Completed => total_correct = judged_correct

\* run() returned 1 after Esc at the score of a session of two questions
C11_Witness ==
    /\ pc = "done"
    /\ op = "game_over:esc"
    /\ total_questions = 2
    /\ cur_question = 2
    /\ total_incorrect = 1
    /\ result = Some(1)

-----------------------------------------------------------------------------
(* C12 *)

\* the highlighted index is one of the n candidates
HighlightInRange ==
    /\ table_state # None
    /\ Unwrap(table_state) \in 0..(Len(verbs) - 1)

\* C12: with n > 0 candidates the highlight stays in [0, n); Down (or j)
\* maps i to (i + 1) mod n, Up (or k) maps i to (i - 1) mod n, and either
\* one followed by the other gives the index back.
C12_NavigationCyclesModuloLength ==
    /\ [](Len(verbs) > 0 =>
            /\ HighlightInRange
            /\ LET n == Len(verbs)
                   i == Unwrap(table_state)
               IN /\ NextSelected(PreviousSelected(i, n), n) = i
                  /\ PreviousSelected(NextSelected(i, n), n) = i)
    /\ [][(EventStep /\ Selecting /\ Len(verbs) > 0) =>
            LET n == Len(verbs)
                i == Unwrap(table_state)
            IN /\ key' \in {Down, Char("j")}
                     => /\ table_state' = Some((i + 1) % n)
                        /\ panic' = ""
               /\ key' \in {Up, Char("k")}
                     => /\ table_state' = Some((i + n - 1) % n)
                        /\ panic' = ""]_vars

\* the scenario: two candidates, Up from index 0 wrapped to index 1
C12_Witness ==
    /\ Selecting
    /\ Len(verbs) = 2
    /\ op = "select_verb:previous"
    /\ key = Up
    /\ table_state = Some(1)

-----------------------------------------------------------------------------
(* C13 *)

\* C13: with no candidate at all, Up, Down, k and j neither panic nor
\* change the highlight or anything else of the session.
C13_NavigationOnEmptyListIsNoOp ==
    [][(EventStep /\ Selecting /\ verbs = <<>>
           /\ key' \in {Up, Down, Char("j"), Char("k")})
          => /\ UNCHANGED appvars
             /\ panic' = ""
             /\ pc' = "draw"]_vars

-----------------------------------------------------------------------------
(* C14 *)

\* the verb the highlight names, "" when it names none
HighlightedVerb ==
    IF table_state # None /\ Unwrap(table_state) < Len(verbs)
    THEN VerbFromStr(verbs[Unwrap(table_state) + 1])
    ELSE ""

\* the highlighted verb has a file that can be read and holds a record
HighlightedDatasetUsable ==
    /\ HighlightedVerb # ""
    /\ VerbFile(HighlightedVerb).ok
    /\ Len(VerbFile(HighlightedVerb).rows) > 0

\* C14: Enter at the verbs table ends in a panic when the highlighted
\* verb's dataset cannot be loaded or is empty (or no valid candidate is
\* highlighted); else it enters question mode with that verb, its records
\* loaded and cur_conjugation below their number.
C14_ConfirmLoadsOrFails ==
    [][(EventStep /\ Selecting /\ key' = Enter) =>
          IF HighlightedDatasetUsable
          THEN /\ panic' = ""
               /\ pc' = "draw"
               /\ verb' = Some(HighlightedVerb)
               /\ Len(conjugations') = Len(VerbFile(HighlightedVerb).rows)
               /\ \A i \in 1..Len(conjugations') :
                     /\ conjugations'[i].verb = HighlightedVerb
                     /\ conjugations'[i].german
                           = VerbFile(HighlightedVerb).rows[i][4]
               /\ cur_conjugation' \in 0..(Len(conjugations') - 1)
               /\ exit' = None
          ELSE /\ panic' # ""
               /\ pc' = "panic"]_vars

\* Enter on Essen, whose file holds no record, ended in a panic
C14_Witness ==
    /\ pc = "panic"
    /\ op = "select_verb:enter"
    /\ verb = Some("Essen")
    /\ conjugations = <<>>
    /\ panic = "cannot sample empty range"

-----------------------------------------------------------------------------
(* C15 *)

\* C15: every step leaves cur_question as it is, or adds exactly 1 to it
\* (Enter on a feedback screen), or sets it back to 0 by Enter or any other
\* key but Esc at the score screen.
C15_QuestionIndexMonotone ==
    [][\/ cur_question' = cur_question
       \/ /\ cur_question' = cur_question + 1
          /\ EventStep /\ Judged /\ key' = Enter
       \/ /\ cur_question' = 0
          /\ EventStep /\ Completed
          /\ key'.kind = "Press" /\ key' # Esc]_vars

\* the second advance of a session of three questions
C15_Witness ==
    /\ Unanswered
    /\ op = "learning:next_question"
    /\ total_questions = 3
    /\ cur_question = 2
    /\ advances = 2

-----------------------------------------------------------------------------
(* C16 *)

\* C16: Enter on an unanswered question with a non-empty cur_response adds
\* 1 to total_correct alone and sets Some(false) when the answer matches,
\* adds 1 to total_incorrect alone and sets Some(true) when it does not,
\* and leaves cur_question, cur_conjugation, cur_response and exit alone.
C16_JudgesExactlyOnce ==
    [][(EventStep /\ key' = Enter /\ Unanswered /\ cur_response # <<>>) =>
          /\ IF AnswerMatches(cur_response, Stored)
             THEN /\ total_correct' = total_correct + 1
                  /\ total_incorrect' = total_incorrect
                  /\ cur_response_incorrect' = Some(FALSE)
             ELSE /\ total_incorrect' = total_incorrect + 1
                  /\ total_correct' = total_correct
                  /\ cur_response_incorrect' = Some(TRUE)
          /\ UNCHANGED <<cur_question, cur_conjugation, cur_response, exit,
                         conjugations, verb>>
          /\ panic' = ""]_vars

\* " j" was judged incorrect, after a first answer judged correct
C16_Witness ==
    /\ Judged
    /\ op = "learning:check_answer"
    /\ cur_response = <<" ", "j">>
    /\ cur_response_incorrect = Some(TRUE)
    /\ total_correct = 1
    /\ total_incorrect = 1

-----------------------------------------------------------------------------
(* C17 *)

\* C17: Enter on a feedback screen empties cur_response, sets
\* cur_response_incorrect to None, adds exactly 1 to cur_question, keeps
\* total_correct and total_incorrect, and, when the new cur_question is
\* below total_questions, leaves cur_conjugation below the dataset's length.
C17_AdvanceClearsAndRolls ==
    [][(EventStep /\ key' = Enter /\ Judged) =>
          /\ cur_response' = <<>>
          /\ cur_response_incorrect' = None
          /\ cur_question' = cur_question + 1
          /\ UNCHANGED <<total_correct, total_incorrect, conjugations, verb>>
          /\ cur_question' < total_questions
                => /\ cur_conjugation' \in 0..(Len(conjugations) - 1)
                   /\ exit' = None
                   /\ panic' = ""]_vars

\* an advance to the second question after a two-character answer
C17_Witness ==
    /\ Unanswered
    /\ op = "learning:next_question"
    /\ cur_question = 1
    /\ cur_question < total_questions
    /\ cur_response = <<>>
    /\ total_incorrect = 1
    /\ Len(conjugations) = 2
    /\ cur_conjugation = 0

-----------------------------------------------------------------------------
(* C18 *)

\* C18: on a feedback screen a printable character or Backspace leaves
\* cur_response, the judged answer shown there, and the whole session
\* unchanged.
C18_JudgedResponseIsFrozen ==
    [][(EventStep /\ Judged /\ key'.code \in {"Char", "Backspace"})
          => UNCHANGED appvars]_vars

-----------------------------------------------------------------------------
(* C19 *)

\* main got past its test of args.number and constructed the App
Constructed == panic # StartupPanic

\* C19: in every state of a constructed App, 0 <= cur_question <=
\* total_questions and total_questions is within 1..99; no step changes
\* total_questions.
C19_QuestionIndexBounded ==
    /\ [](Constructed => /\ cur_question \in 0..total_questions
                         /\ total_questions \in 1..99)
    /\ [][total_questions' = total_questions]_vars

\* the last question of a session of three was advanced past
C19_Witness ==
    /\ Completed
    /\ op = "learning:next_question"
    /\ total_questions = 3
    /\ cur_question = 3

-----------------------------------------------------------------------------
(* C20 *)

\* C20: a key press other than Enter and Esc at the score screen shows the
\* verbs table again with cur_question, total_correct and total_incorrect 0
\* and exit None; while the verbs table is shown these stay 0 and unjudged,
\* no event checks an answer or advances, and only Enter chooses a verb;
\* an Enter that chooses one loads that verb's records and leaves
\* cur_conjugation below their number.
C20_NewVerbRestartsFromSelection ==
    /\ [](Selecting => /\ cur_question = 0
                       /\ total_correct = 0
                       /\ total_incorrect = 0
                       /\ cur_response_incorrect = None
                       /\ exit = None)
    /\ [][(EventStep /\ Completed /\ key'.kind = "Press"
              /\ key' \notin {Enter, Esc})
             => /\ pc' = "draw"
                /\ verb' = None
                /\ exit' = None
                /\ cur_question' = 0
                /\ total_correct' = 0
                /\ total_incorrect' = 0]_vars
    /\ [][(EventStep /\ Selecting)
             => /\ op' \notin {"learning:check_answer",
                               "learning:next_question"}
                /\ UNCHANGED <<cur_question, total_correct, total_incorrect,
                               cur_response, cur_response_incorrect>>
                /\ verb' # None => key' = Enter
                /\ (verb' # None /\ panic' = "")
                      => /\ pc' = "draw"
                         /\ exit' = None
                         /\ conjugations'
                               = ParseConjugations(Unwrap(verb')).val
                         /\ cur_conjugation'
                               \in 0..(Len(conjugations') - 1)]_vars

\* after the score screen a second verb was confirmed at the verbs table,
\* the highlight having been moved to Haben
C20_Witness ==
    /\ Unanswered
    /\ op = "select_verb:enter"
    /\ confirms = 2
    /\ verb = Some("Haben")
    /\ cur_question = 0
    /\ cur_conjugation < Len(conjugations)

-----------------------------------------------------------------------------
(* C21 *)

\* C21: each question is judged at most once: in every state with a verb
\* chosen, total_correct + total_incorrect is cur_question, plus 1 when
\* cur_response_incorrect holds a judgment; neither counter exceeds
\* total_questions (so neither leaves the range of u8); Enter on a judged
\* question advances and changes no counter.
C21_JudgedAtMostOnce ==
    /\ [](verb # None =>
             total_correct + total_incorrect
                = cur_question + (IF cur_response_incorrect # None
                                  THEN 1 ELSE 0))
    /\ [](/\ total_correct <= total_questions
          /\ total_incorrect <= total_questions
          /\ total_correct < 256
          /\ total_incorrect < 256)
    /\ [][(EventStep /\ Judged /\ key' = Enter)
             => /\ op' = "learning:next_question"
                /\ cur_response_incorrect' = None
                /\ UNCHANGED <<total_correct, total_incorrect>>]_vars

\* Enter on the judged second question advanced to the third, two answers
\* counted
C21_Witness ==
    /\ Unanswered
    /\ op = "learning:next_question"
    /\ key = Enter
    /\ cur_question = 2
    /\ total_correct = 2
    /\ total_incorrect = 0
    /\ judged_correct = 2

-----------------------------------------------------------------------------
(* C22 *)

\* C22: whenever exit is Some(false), total_correct + total_incorrect,
\* total_questions and cur_question are equal, no answer is judged and
\* cur_response is empty; so Enter at the score screen starts an unjudged
\* question with an empty response.
C22_CompletedIsCleanAndFull ==
    /\ [](exit = Some(FALSE) =>
             /\ verb # None
             /\ total_correct + total_incorrect = total_questions
             /\ cur_question = total_questions
             /\ cur_response_incorrect = None
             /\ cur_response = <<>>)
    /\ [][(EventStep /\ Completed /\ key' = Enter)
             => /\ exit' = None
                /\ cur_response_incorrect' = None
                /\ cur_response' = <<>>]_vars

\* the score of a session of two questions, one answer of each kind, is
\* shown
C22_Witness ==
    /\ Completed
    /\ pc = "event"
    /\ total_questions = 2
    /\ total_correct = 1
    /\ total_incorrect = 1
    /\ cur_response = <<>>
    /\ cur_response_incorrect = None

====
